---- MODULE Spec2Model ----
(***************************************************************************)
(* A model of analyze.py: the rule parser (_parse_regexes), the grouping   *)
(* function (_group) and the aggregation run (main, _process_calendar).    *)
(*                                                                         *)
(* Text is a sequence of one-character strings, so that the parser and the *)
(* regex matcher work on characters as the Python code does.               *)
(***************************************************************************)
EXTENDS Integers, Sequences, FiniteSets, TLC

(***************************************************************************)
(* Bounds of the model.                                                    *)
(***************************************************************************)
\* longest rule string enumerated exhaustively over BaseChars
MaxLen == 8
\* most events a calendar holds
MaxEvents == 2
\* latest instant of an event's begin or end
MaxTime == 2
\* most rules handed to _group when it is checked on its own
MaxRules == 2
\* longest event name handed to _group when it is checked on its own
MaxName == 2

None == "None"

(***************************************************************************)
(* Characters.                                                             *)
(***************************************************************************)
\* pyparsing's default whitespace characters, skipped before every token
White == {" ", "\t", "\n", "\r"}

UpperLetters ==
  <<"A","B","C","D","E","F","G","H","I","J","K","L","M",
    "N","O","P","Q","R","S","T","U","V","W","X","Y","Z">>

LowerLetters ==
  <<"a","b","c","d","e","f","g","h","i","j","k","l","m",
    "n","o","p","q","r","s","t","u","v","w","x","y","z">>

Range(f) == {f[k] : k \in DOMAIN f}

\* pp.printables: the printable, non-whitespace ASCII characters (all but the
\* grave accent, which a TLA+ string cannot hold)
Printables ==
  Range(UpperLetters) \cup Range(LowerLetters) \cup
  {"0","1","2","3","4","5","6","7","8","9"} \cup
  {"!","\"","#","$","%","&","'","(",")","*","+",",","-",".","/",":",";",
   "<","=",">","?","@","[","\\","]","^","_","{","|","}","~"}

\* pp.Word(pp.printables + ' \t\n\r', excludeChars='/')
WordChars == (Printables \cup White) \ {"/"}

\* the alternatives of the flag expression
FlagChars == {"i", "L", "s", "u", "x"}

\* str.lower() on one character
Lower(c) ==
  IF \E k \in DOMAIN UpperLetters : UpperLetters[k] = c
  THEN LowerLetters[CHOOSE k \in DOMAIN UpperLetters : UpperLetters[k] = c]
  ELSE c

(***************************************************************************)
(* pyparsing, as far as regexBNF uses it.  A location is the index of the  *)
(* next character to read; 0 stands for a ParseException.                  *)
(***************************************************************************)
RECURSIVE Spaces(_)
Spaces(n) == IF n = 0 THEN <<>> ELSE <<" ">> \o Spaces(n - 1)

\* parseString() calls instring.expandtabs() first (tab stops every 8 columns)
RECURSIVE ExpandTabsFrom(_, _, _)
ExpandTabsFrom(s, i, col) ==
  IF i > Len(s) THEN <<>>
  ELSE IF s[i] = "\t"
       THEN LET n == 8 - (col % 8)
            IN  Spaces(n) \o ExpandTabsFrom(s, i + 1, col + n)
  ELSE IF s[i] \in {"\n", "\r"}
       THEN <<s[i]>> \o ExpandTabsFrom(s, i + 1, 0)
  ELSE <<s[i]>> \o ExpandTabsFrom(s, i + 1, col + 1)

ExpandTabs(s) == ExpandTabsFrom(s, 1, 0)

\* ParserElement.preParse: skip the whitespace in front of a token
RECURSIVE SkipWhitespace(_, _)
SkipWhitespace(s, loc) ==
  IF loc <= Len(s) /\ s[loc] \in White
  THEN SkipWhitespace(s, loc + 1)
  ELSE loc

\* pp.Literal(ch): the location after ch, or 0
ParseLiteral(s, loc, ch) ==
  LET p == SkipWhitespace(s, loc)
  IN  IF p <= Len(s) /\ s[p] = ch THEN p + 1 ELSE 0

\* the end of the longest run of word characters starting at loc
RECURSIVE WordEnd(_, _)
WordEnd(s, loc) ==
  IF loc <= Len(s) /\ s[loc] \in WordChars
  THEN WordEnd(s, loc + 1)
  ELSE loc

\* pp.Word(...): the token and the location after it, or next = 0
ParseWord(s, loc) ==
  LET p == SkipWhitespace(s, loc)
      q == WordEnd(s, p)
  IN  IF q = p THEN [next |-> 0, tok |-> <<>>]
      ELSE [next |-> q, tok |-> SubSeq(s, p, q - 1)]

\* pp.ZeroOrMore(Literal('i') ^ ... ^ Literal('x')): the flag tokens, one
\* character each, and the location after the last of them
RECURSIVE ParseFlags(_, _)
ParseFlags(s, loc) ==
  LET p == SkipWhitespace(s, loc)
  IN  IF p <= Len(s) /\ s[p] \in FlagChars
      THEN LET rest == ParseFlags(s, p + 1)
           IN  [next |-> rest.next, toks |-> <<s[p]>> \o rest.toks]
      ELSE [next |-> loc, toks |-> <<>>]

\* pp.Optional('/' + ZeroOrMore(flags)): nothing when there is no third '/'
ParseOptionalFlags(s, loc) ==
  LET p == ParseLiteral(s, loc, "/")
  IN  IF p = 0 THEN [next |-> loc, toks |-> <<>>] ELSE ParseFlags(s, p)

\* StringEnd without the whitespace skipped in front of it
StringEndNoSkip(s, loc) == loc > Len(s)

\* pp.StringEnd(): only whitespace may be left
ParseStringEnd(s, loc) == SkipWhitespace(s, loc) > Len(s)

\* regexBNF.parseString(regex): ok and the token list (pattern, replacement,
\* then one token per flag), or a ParseException
ParseString(regex) ==
  LET s  == ExpandTabs(regex)
      l1 == ParseLiteral(s, 1, "/")
      w1 == IF l1 = 0 THEN [next |-> 0, tok |-> <<>>] ELSE ParseWord(s, l1)
      l2 == IF w1.next = 0 THEN 0 ELSE ParseLiteral(s, w1.next, "/")
      w2 == IF l2 = 0 THEN [next |-> 0, tok |-> <<>>] ELSE ParseWord(s, l2)
      fl == IF w2.next = 0 THEN [next |-> 0, toks |-> <<>>]
            ELSE ParseOptionalFlags(s, w2.next)
  IN  IF w2.next # 0 /\ ParseStringEnd(s, fl.next)
      THEN [ok |-> TRUE,
            parsed |-> <<w1.tok, w2.tok>> \o [k \in 1..Len(fl.toks) |-> <<fl.toks[k]>>]]
      ELSE [ok |-> FALSE, parsed |-> <<>>]

\* ''.join(parts)
RECURSIVE Join(_)
Join(parts) == IF parts = <<>> THEN <<>> ELSE Head(parts) \o Join(Tail(parts))

\* lines 67-70: the pattern text handed to re.compile
RegexStr(parsed) ==
  IF Len(parsed) > 2
  THEN <<"(", "?">> \o Join(SubSeq(parsed, 3, Len(parsed))) \o <<")">> \o parsed[1]
  ELSE parsed[1]

\* line 68
ReplaceStr(parsed) == parsed[2]

(***************************************************************************)
(* Python's re, for the patterns the model draws: literal characters, '.', *)
(* a postfix '*', and the inline flag group that line 70 puts in front.    *)
(***************************************************************************)
\* the index of the first ch in s at or after i, or 0
RECURSIVE IndexOf(_, _, _)
IndexOf(s, ch, i) ==
  IF i > Len(s) THEN 0
  ELSE IF s[i] = ch THEN i
  ELSE IndexOf(s, ch, i + 1)

\* the flags of a leading "(?flags)" group
InlineFlags(regex_str) ==
  IF Len(regex_str) >= 2 /\ regex_str[1] = "(" /\ regex_str[2] = "?"
  THEN {regex_str[j] : j \in 3..(IndexOf(regex_str, ")", 3) - 1)}
  ELSE {}

\* the pattern after the flag group
PatternBody(regex_str) ==
  IF Len(regex_str) >= 2 /\ regex_str[1] = "(" /\ regex_str[2] = "?"
  THEN SubSeq(regex_str, IndexOf(regex_str, ")", 3) + 1, Len(regex_str))
  ELSE regex_str

\* the items of the pattern: a character or '.', each perhaps starred.
\* A '*' with nothing before it or after another '*' is an re.error; with
\* the x flag, whitespace in the pattern is dropped.
RECURSIVE ParseAtoms(_, _, _, _)
ParseAtoms(body, i, verbose, acc) ==
  IF i > Len(body) THEN [ok |-> TRUE, atoms |-> acc]
  ELSE IF verbose /\ body[i] \in White
       THEN ParseAtoms(body, i + 1, verbose, acc)
  ELSE IF body[i] = "*"
       THEN IF acc = <<>> \/ acc[Len(acc)].star
            THEN [ok |-> FALSE, atoms |-> <<>>]
            ELSE ParseAtoms(body, i + 1, verbose,
                            [acc EXCEPT ![Len(acc)].star = TRUE])
  ELSE ParseAtoms(body, i + 1, verbose,
                  Append(acc, [ch |-> body[i], any |-> body[i] = ".", star |-> FALSE]))

\* re.compile(regex_str); the L flag is an re.error for a str pattern
Compile(regex_str) ==
  LET flags == InlineFlags(regex_str)
      items == ParseAtoms(PatternBody(regex_str), 1, "x" \in flags, <<>>)
  IN  [ok         |-> items.ok /\ "L" \notin flags,
       pattern    |-> regex_str,
       ignorecase |-> "i" \in flags,
       dotall     |-> "s" \in flags,
       atoms      |-> items.atoms]

\* one item against one character
AtomMatches(cp, atom, c) ==
  IF atom.any THEN cp.dotall \/ c # "\n"
  ELSE IF cp.ignorecase THEN Lower(atom.ch) = Lower(c)
  ELSE atom.ch = c

\* can the items from k on match at position j of s
RECURSIVE MatchFrom(_, _, _, _)
MatchFrom(cp, k, s, j) ==
  IF k > Len(cp.atoms) THEN TRUE
  ELSE IF cp.atoms[k].star
       THEN \/ MatchFrom(cp, k + 1, s, j)
            \/ /\ j <= Len(s)
               /\ AtomMatches(cp, cp.atoms[k], s[j])
               /\ MatchFrom(cp, k, s, j + 1)
  ELSE /\ j <= Len(s)
       /\ AtomMatches(cp, cp.atoms[k], s[j])
       /\ MatchFrom(cp, k + 1, s, j + 1)

\* pattern.match(s): a match that starts at the start of s
Match(cp, s) == MatchFrom(cp, 1, s, 1)

\* _group without the early return: the last matching rule wins
RECURSIVE GroupLastMatch(_, _)
GroupLastMatch(s, groups) ==
  IF groups = <<>> THEN s
  ELSE IF Match(groups[Len(groups)].pattern, s) THEN groups[Len(groups)].replacement
  ELSE GroupLastMatch(s, SubSeq(groups, 1, Len(groups) - 1))

(***************************************************************************)
(* _group: lines 13-25                                                     *)
(***************************************************************************)
RECURSIVE Group(_, _)
Group(s, groups) ==
  IF groups = <<>> THEN s
  ELSE IF Match(Head(groups).pattern, s) THEN Head(groups).replacement
  ELSE Group(s, Tail(groups))

(***************************************************************************)
(* _parse_regexes: lines 39-73.  st holds the results, the printed lines   *)
(* and the exception in flight.                                            *)
(***************************************************************************)
\* print(): one more line of output
Emit(out, line) == Append(out, line)

UnableLine(regex) == [kind |-> "unable", text |-> regex, with |-> <<>>]

ReplacingLine(regex_str, replace_str) ==
  [kind |-> "replacing", text |-> regex_str, with |-> replace_str]

\* the turn of the loop without the print of line 71
ParseOneQuiet(st, regex) ==
  LET p == ParseString(regex)
  IN  IF ~p.ok
      THEN [st EXCEPT !.output = Emit(st.output, UnableLine(regex)),
                      !.raised = "ParseException"]
      ELSE LET cp == Compile(RegexStr(p.parsed))
           IN  IF ~cp.ok
               THEN [st EXCEPT !.raised = "re.error"]
               ELSE [st EXCEPT !.results = Append(st.results,
                                 [pattern |-> cp, replacement |-> ReplaceStr(p.parsed)])]

\* one turn of the loop of line 61
ParseOne(st, regex) ==
  LET p == ParseString(regex)
  IN  IF ~p.ok
      THEN [st EXCEPT !.output = Emit(st.output, UnableLine(regex)),
                      !.raised = "ParseException"]
      ELSE LET regex_str   == RegexStr(p.parsed)
               replace_str == ReplaceStr(p.parsed)
               cp          == Compile(regex_str)
               out         == Emit(st.output, ReplacingLine(regex_str, replace_str))
           IN  IF ~cp.ok
               THEN [st EXCEPT !.output = out, !.raised = "re.error"]
               ELSE [st EXCEPT !.output = out,
                               !.results = Append(st.results,
                                 [pattern |-> cp, replacement |-> replace_str])]

\* the whole loop: it ends at the first exception
RECURSIVE ParseFrom(_, _, _)
ParseFrom(st, regexes, k) ==
  IF k > Len(regexes) \/ st.raised # None THEN st
  ELSE ParseFrom(ParseOne(st, regexes[k]), regexes, k + 1)

ParseRegexes(out, regexes) ==
  ParseFrom([results |-> <<>>, output |-> out, raised |-> None], regexes, 1)

(***************************************************************************)
(* main and _process_calendar: lines 76-109 and 129-165                    *)
(***************************************************************************)
\* argparse's type=bool: bool(value), true of every non-empty string
Bool(value) == value # ""

\* lines 147-150: the option's value converted, or the default
ParseAllday(opt) == IF opt.given THEN Bool(opt.value) ELSE FALSE

\* an optional date is <<>> (None) or <<instant>>; an arrow date is truthy
IsSet(date) == date # <<>>

\* line 90
ProcessingLine(start_date, end_date) ==
  [kind |-> "processing", text |-> start_date, with |-> end_date]

\* event.duration.total_seconds()
Duration(ev) == ev.end - ev.begin

\* the all-day filter with the flag ignored
SkipAllDayAlways(allday, ev) == ev.all_day

\* line 96
SkipAllDay(allday, ev) == ~allday /\ ev.all_day

\* line 98
SkipBeforeStart(start_date, ev) == IsSet(start_date) /\ ev.begin < start_date[1]

\* the end filter with >= for >
SkipAtOrAfterEnd(end_date, ev) == IsSet(end_date) /\ ev.end >= end_date[1]

\* line 100
SkipAfterEnd(end_date, ev) == IsSet(end_date) /\ ev.end > end_date[1]

\* the line at which the loop body ends for ev: a continue, or line 104
BodyEnd(a, ev) ==
  IF SkipAllDay(a.allday, ev) THEN "line97"
  ELSE IF SkipBeforeStart(a.startdate, ev) THEN "line99"
  ELSE IF SkipAfterEnd(a.enddate, ev) THEN "line101"
  ELSE "line104"

\* the keys of the dict, in insertion order
Keys(g) == {g[j].name : j \in DOMAIN g}

\* g[name], for a key of g
Value(g, name) == g[CHOOSE j \in DOMAIN g : g[j].name = name].seconds

\* line 104 with = for +=
AddToOverwrite(g, name, seconds) ==
  IF name \in Keys(g)
  THEN [j \in DOMAIN g |->
          IF g[j].name = name THEN [g[j] EXCEPT !.seconds = seconds] ELSE g[j]]
  ELSE Append(g, [name |-> name, seconds |-> seconds])

\* line 104: groups[event_name] += seconds, on a defaultdict of zeros
AddTo(g, name, seconds) ==
  IF name \in Keys(g)
  THEN [j \in DOMAIN g |->
          IF g[j].name = name
          THEN [g[j] EXCEPT !.seconds = g[j].seconds + seconds]
          ELSE g[j]]
  ELSE Append(g, [name |-> name, seconds |-> seconds])

\* the sort without reverse=True
RECURSIVE InsertAscending(_, _)
InsertAscending(sorted, item) ==
  IF sorted = <<>> THEN <<item>>
  ELSE IF Head(sorted).seconds <= item.seconds
       THEN <<Head(sorted)>> \o InsertAscending(Tail(sorted), item)
  ELSE <<item>> \o sorted

\* where a stable descending sort puts one more item: after every item
\* that is at least as large
RECURSIVE InsertDescending(_, _)
InsertDescending(sorted, item) ==
  IF sorted = <<>> THEN <<item>>
  ELSE IF Head(sorted).seconds >= item.seconds
       THEN <<Head(sorted)>> \o InsertDescending(Tail(sorted), item)
  ELSE <<item>> \o sorted

\* lines 106-108: sorted(groups.items(), key=item[1], reverse=True)
RECURSIVE SortedItems(_)
SortedItems(g) ==
  IF g = <<>> THEN <<>>
  ELSE InsertDescending(SortedItems(SubSeq(g, 1, Len(g) - 1)), g[Len(g)])

\* _total_hours: seconds / 3600.0, kept as a fraction
TotalHours(seconds) == [num |-> seconds, den |-> 3600]

\* line 109
GroupLine(item) ==
  [kind |-> "group", text |-> item.name, with |-> TotalHours(item.seconds)]

\* lines 106-109: the lines of the report
RECURSIVE EmitAll(_, _)
EmitAll(out, items) ==
  IF items = <<>> THEN out
  ELSE EmitAll(Emit(out, GroupLine(Head(items))), Tail(items))

(***************************************************************************)
(* Inputs.                                                                 *)
(***************************************************************************)
\* rule strings of the runs: /a/W/  /.*/P/  /b/W  /A/ P/ i
RuleAW    == <<"/", "a", "/", "W", "/">>
RuleAnyP  == <<"/", ".", "*", "/", "P", "/">>
RuleBW    == <<"/", "b", "/", "W">>
RuleAPi   == <<"/", "A", "/", " ", "P", "/", " ", "i">>
\* /a/  (no replacement)  and  x/a/W/  (no leading separator)
RuleNoReplacement == <<"/", "a", "/">>
RuleNoSeparator   == <<"x", "/", "a", "/", "W", "/">>
\* /*a/W/  and  /a/W/L  (re.compile fails)
RuleBadStar  == <<"/", "*", "a", "/", "W", "/">>
RuleBadFlag  == <<"/", "a", "/", "W", "/", "L">>

RuleLists ==
  { <<>>, <<RuleAW>>, <<RuleAW, RuleAnyP>>, <<RuleAnyP, RuleAW>>,
    <<RuleBW, RuleAPi>>,
    <<RuleAW, RuleNoReplacement>>, <<RuleNoSeparator, RuleAW>>,
    <<RuleAW, RuleBadStar>>, <<RuleBadFlag, RuleAW>> }

AlldayOptions ==
  {[given |-> FALSE, value |-> ""]} \cup
  {[given |-> TRUE, value |-> v] : v \in {"", "False", "false", "True"}}

StartDates == {<<>>, <<1>>}
EndDates   == {<<>>, <<2>>}

Names == {<<"a">>, <<"a", "b">>, <<"b", "a">>}

Events ==
  {ev \in [name : Names, begin : 0..MaxTime, end : 0..MaxTime, all_day : BOOLEAN] :
     ev.begin <= ev.end}

NoEvent == [name |-> <<>>, begin |-> 0, end |-> 0, all_day |-> FALSE]

NoArgs == [allday |-> FALSE, startdate |-> <<>>, enddate |-> <<>>, regexes |-> <<>>]

NoArgv ==
  [allday |-> [given |-> FALSE, value |-> ""], startdate |-> <<>>,
   enddate |-> <<>>, regexes |-> <<>>]

(***************************************************************************)
(* The run.                                                                *)
(***************************************************************************)
VARIABLES
  pc,            \* where the run is
  argv,          \* the command line
  args,          \* parser.parse_args()
  k,             \* the index of the rule the loop of line 61 is at
  results,       \* the rules parsed so far
  output,        \* the lines printed so far
  raised,        \* the exception that ended the run, or None
  remaining,     \* the events the loop of line 95 has yet to visit
  event,         \* the loop variable of line 95
  at,            \* the line at which the loop body ended for event
  event_name,    \* line 103
  groups,        \* line 93
  total_seconds  \* line 94

vars == <<pc, argv, args, k, results, output, raised, remaining, event, at,
          event_name, groups, total_seconds>>

Init ==
  /\ pc = "main"
  /\ argv \in [allday : AlldayOptions, startdate : StartDates,
               enddate : EndDates, regexes : RuleLists]
  /\ args = NoArgs
  /\ k = 1
  /\ results = <<>>
  /\ output = <<>>
  /\ raised = None
  /\ remaining = 0
  /\ event = NoEvent
  /\ at = None
  /\ event_name = <<>>
  /\ groups = <<>>
  /\ total_seconds = 0

\* lines 160-165 and line 90
Main ==
  /\ pc = "main"
  /\ args' = [allday    |-> ParseAllday(argv.allday),
              startdate |-> argv.startdate,
              enddate   |-> argv.enddate,
              regexes   |-> argv.regexes]
  /\ output' = Emit(output, ProcessingLine(argv.startdate, argv.enddate))
  /\ pc' = "parse"
  /\ UNCHANGED <<argv, k, results, raised, remaining, event, at, event_name,
                 groups, total_seconds>>

\* lines 61-72: one rule
ParseRegex ==
  /\ pc = "parse"
  /\ k <= Len(args.regexes)
  /\ LET st == ParseOne([results |-> results, output |-> output, raised |-> raised],
                        args.regexes[k])
     IN  /\ results' = st.results
         /\ output' = st.output
         /\ raised' = st.raised
         /\ pc' = IF st.raised # None THEN "error" ELSE "parse"
  /\ k' = k + 1
  /\ UNCHANGED <<argv, args, remaining, event, at, event_name, groups,
                 total_seconds>>

\* line 73, then lines 92-94: the calendar is read
ParseReturn ==
  /\ pc = "parse"
  /\ k > Len(args.regexes)
  /\ \E n \in 0..MaxEvents : remaining' = n
  /\ groups' = <<>>
  /\ total_seconds' = 0
  /\ pc' = "events"
  /\ UNCHANGED <<argv, args, k, results, output, raised, event, at, event_name>>

\* lines 95-104: one event
ProcessEvent ==
  /\ pc = "events"
  /\ remaining > 0
  /\ \E ev \in Events :
       /\ event' = ev
       /\ at' = BodyEnd(args, ev)
       /\ IF BodyEnd(args, ev) = "line104"
          THEN /\ total_seconds' = total_seconds + Duration(ev)
               /\ event_name' = Group(ev.name, results)
               /\ groups' = AddTo(groups, Group(ev.name, results), Duration(ev))
          ELSE UNCHANGED <<total_seconds, event_name, groups>>
  /\ remaining' = remaining - 1
  /\ UNCHANGED <<pc, argv, args, k, results, output, raised>>

\* lines 106-109: the report
Report ==
  /\ pc = "events"
  /\ remaining = 0
  /\ output' = EmitAll(output, SortedItems(groups))
  /\ pc' = "done"
  /\ UNCHANGED <<argv, args, k, results, raised, remaining, event, at,
                 event_name, groups, total_seconds>>

Next == Main \/ ParseRegex \/ ParseReturn \/ ProcessEvent \/ Report

Spec == Init /\ [][Next]_vars

(***************************************************************************)
(* _parse_regexes on its own: every rule string over BaseChars up to       *)
(* MaxLen characters, and lists of the rule strings above.                 *)
(***************************************************************************)
BaseChars == {"/", "a", "i", " "}

StringsOver(chars, n) ==
  UNION {[1..m -> chars] : m \in 0..n}

\* /a\tb/W/   / a/W/i i   /a b/W/x   /a/W/s u
RuleTab      == <<"/", "a", "\t", "b", "/", "W", "/">>
RuleTwoFlags == <<"/", " ", "a", "/", "W", "/", "i", " ", "i">>
RuleVerbose  == <<"/", "a", " ", "b", "/", "W", "/", "x">>
RuleDotAll   == <<"/", "a", "/", "W", "/", "s", " ", "u">>

ParseInputs ==
  {<<r>> : r \in StringsOver(BaseChars, MaxLen)} \cup
  {<<r>> : r \in {RuleTab, RuleTwoFlags, RuleVerbose, RuleDotAll}} \cup
  RuleLists

InitParse ==
  /\ pc = "parse_call"
  /\ \E regexes \in ParseInputs : argv = [NoArgv EXCEPT !.regexes = regexes]
  /\ args = NoArgs
  /\ k = 1
  /\ results = <<>>
  /\ output = <<>>
  /\ raised = None
  /\ remaining = 0
  /\ event = NoEvent
  /\ at = None
  /\ event_name = <<>>
  /\ groups = <<>>
  /\ total_seconds = 0

\* _parse_regexes(regexes), from the call to the return or the exception
ParseCall ==
  /\ pc = "parse_call"
  /\ LET st == ParseRegexes(<<>>, argv.regexes)
     IN  /\ results' = st.results
         /\ output' = st.output
         /\ raised' = st.raised
  /\ pc' = "parse_returned"
  /\ UNCHANGED <<argv, args, k, remaining, event, at, event_name, groups,
                 total_seconds>>

NextParse == ParseCall

SpecParse == InitParse /\ [][NextParse]_vars

(***************************************************************************)
(* _group on its own: names of up to MaxName characters over GroupChars    *)
(* and lists of up to MaxRules compiled rules.                             *)
(***************************************************************************)
GroupChars == {"a", "b", "A"}

\* a  b  ab  a*  .  .*b  (?i)a  b*a
GroupPatterns ==
  { <<"a">>, <<"b">>, <<"a", "b">>, <<"a", "*">>, <<".">>, <<".", "*", "b">>,
    <<"(", "?", "i", ")", "a">>, <<"b", "*", "a">> }

GroupRules ==
  {[pattern |-> Compile(p), replacement |-> r] :
     p \in GroupPatterns, r \in {<<"W">>, <<"P">>}}

InitGroup ==
  /\ pc = "group_call"
  /\ argv = NoArgv
  /\ args = NoArgs
  /\ k = 1
  /\ results \in StringsOver(GroupRules, MaxRules)
  /\ output = <<>>
  /\ raised = None
  /\ remaining = 0
  /\ event \in [name : StringsOver(GroupChars, MaxName), begin : {0}, end : {0},
                all_day : {FALSE}]
  /\ at = None
  /\ event_name = <<>>
  /\ groups = <<>>
  /\ total_seconds = 0

\* _group(event.name, regexes), from the call to the return
GroupCall ==
  /\ pc = "group_call"
  /\ event_name' = Group(event.name, results)
  /\ pc' = "group_returned"
  /\ UNCHANGED <<argv, args, k, results, output, raised, remaining, event, at,
                 groups, total_seconds>>

NextGroup == GroupCall

SpecGroup == InitGroup /\ [][NextGroup]_vars

(***************************************************************************)
(* What the properties below are stated with.                              *)
(***************************************************************************)
\* the pieces of s between its '/' characters
RECURSIVE SplitFrom(_, _, _)
SplitFrom(s, i, piece) ==
  IF i > Len(s) THEN <<piece>>
  ELSE IF s[i] = "/" THEN <<piece>> \o SplitFrom(s, i + 1, <<>>)
  ELSE SplitFrom(s, i + 1, Append(piece, s[i]))

Pieces(s) == SplitFrom(s, 1, <<>>)

AllIn(s, chars) == \A j \in DOMAIN s : s[j] \in chars

\* '/' PATTERN '/' REPLACEMENT '/' [FLAGS], to the letter
StrictRule(s) ==
  LET piece == Pieces(s)
  IN  /\ Len(piece) = 4
      /\ piece[1] = <<>>
      /\ piece[2] # <<>> /\ AllIn(piece[2], WordChars)
      /\ piece[3] # <<>> /\ AllIn(piece[3], WordChars)
      /\ AllIn(piece[4], FlagChars)

\* the same with the whitespace in front of each token skipped and the
\* third '/' optional
LenientRule(s) ==
  LET piece == Pieces(s)
  IN  /\ Len(piece) \in {3, 4}
      /\ AllIn(piece[1], White)
      /\ ~AllIn(piece[2], White) /\ AllIn(piece[2], WordChars)
      /\ ~AllIn(piece[3], White) /\ AllIn(piece[3], WordChars)
      /\ Len(piece) = 4 => AllIn(piece[4], FlagChars \cup White)

\* the pattern text the grammar of a strict rule asks for
StrictRegexStr(s) ==
  LET piece == Pieces(s)
  IN  IF piece[4] # <<>>
      THEN <<"(", "?">> \o piece[4] \o <<")">> \o piece[2]
      ELSE piece[2]

IsPrefix(p, s) == Len(p) <= Len(s) /\ SubSeq(s, 1, Len(p)) = p

IsSubstring(p, s) ==
  \E j \in 0..(Len(s) - Len(p)) : SubSeq(s, j + 1, j + Len(p)) = p

Least(S) == CHOOSE j \in S : \A i \in S : j <= i

\* the rules of rs that match s
Matching(s, rs) == {j \in DOMAIN rs : Match(rs[j].pattern, s)}

\* a pattern of plain characters, matched as written
PlainPattern(cp) ==
  /\ ~cp.ignorecase
  /\ \A j \in DOMAIN cp.atoms : ~cp.atoms[j].any /\ ~cp.atoms[j].star
  /\ Len(cp.atoms) = Len(cp.pattern)

(***************************************************************************)
(* C3: _group returns the replacement of the lowest-index rule whose       *)
(* pattern matches at the start of the name, the whole name being          *)
(* replaced, and the name itself when no rule matches (so with no rules    *)
(* every name is its own group).  A pattern of plain characters matches    *)
(* exactly the names that start with it.                                   *)
(***************************************************************************)
C3_FirstMatchWins ==
  pc = "group_returned" =>
    /\ event_name = IF Matching(event.name, results) = {}
                    THEN event.name
                    ELSE results[Least(Matching(event.name, results))].replacement
    /\ \A j \in DOMAIN results :
         PlainPattern(results[j].pattern) =>
           (j \in Matching(event.name, results)
              <=> IsPrefix(results[j].pattern.pattern, event.name))
    /\ results = <<>> => event_name = event.name

\* two rules match a name longer than the first one's pattern, and they
\* name different groups
C3_Witness ==
  /\ pc = "group_returned"
  /\ Cardinality(Matching(event.name, results)) = 2
  /\ results[1].replacement # results[2].replacement
  /\ PlainPattern(results[1].pattern)
  /\ Len(results[1].pattern.pattern) < Len(event.name)
  /\ event_name = results[1].replacement

(***************************************************************************)
(* C4, as amended: _parse_regexes rejects a rule string with a parse       *)
(* failure exactly when, whitespace in front of each token aside, it does  *)
(* not start with '/', lacks the second '/', has an empty or               *)
(* whitespace-only PATTERN or REPLACEMENT, or has after the third '/' a    *)
(* character that is neither a flag i, L, s, u, x nor whitespace.  A       *)
(* string without the third '/' is accepted, and so is whitespace before,  *)
(* between and after the flags.                                            *)
(***************************************************************************)
C4_RejectsOutsideLenientGrammar ==
  pc = "parse_returned" =>
    \A j \in 1..Len(output) :
      output[j].kind = "unable" <=> ~LenientRule(argv.regexes[j])

\* a string rejected for what follows its third '/'
C4_Witness ==
  /\ pc = "parse_returned"
  /\ raised = "ParseException"
  /\ Len(argv.regexes) = 1
  /\ LET piece == Pieces(argv.regexes[1])
     IN  /\ Len(piece) = 4
         /\ StrictRule(<<"/">> \o piece[2] \o <<"/">> \o piece[3] \o <<"/">>)
         /\ "a" \in Range(piece[4])

\* C4 as stated: every string outside the strict grammar is rejected
C4_RejectsOutsideStrictGrammar ==
  pc = "parse_returned" =>
    \A j \in 1..Len(output) :
      ~StrictRule(argv.regexes[j]) => output[j].kind = "unable"

(***************************************************************************)
(* C7 as stated: for a list of rule strings of the grammar whose patterns  *)
(* compile, _parse_regexes returns one rule per string, in order, with     *)
(* the REPLACEMENT part character for character and the PATTERN part       *)
(* behind '(?flags)' exactly when there are flags.                         *)
(***************************************************************************)
C7_ExactParts ==
  (/\ pc = "parse_returned"
   /\ \A j \in DOMAIN argv.regexes :
        /\ StrictRule(argv.regexes[j])
        /\ Compile(StrictRegexStr(argv.regexes[j])).ok)
  => /\ raised = None
     /\ Len(results) = Len(argv.regexes)
     /\ \A j \in DOMAIN results :
          /\ results[j].replacement = Pieces(argv.regexes[j])[3]
          /\ results[j].pattern.pattern = StrictRegexStr(argv.regexes[j])

(***************************************************************************)
(* What the properties of the run are stated with.                         *)
(***************************************************************************)
\* the lines of one kind, in the order printed
LinesOf(kind) == SelectSeq(output, LAMBDA line : line.kind = kind)

RECURSIVE SumOf(_)
SumOf(g) == IF g = <<>> THEN 0 ELSE Head(g).seconds + SumOf(Tail(g))

\* g[name], zero for a name that is no key yet
ValueOr0(g, name) == IF name \in Keys(g) THEN Value(g, name) ELSE 0

\* the group the rules give a name
ExpectedGroup(name) ==
  IF Matching(name, results) = {} THEN name
  ELSE results[Least(Matching(name, results))].replacement

\* a step of the loop of line 95
EventStep == pc = "events" /\ remaining' = remaining - 1

\* the step adds the event's duration to one key, which it may create, and
\* to the total, and leaves every other key alone
AddsToOneGroup(key, seconds) ==
  /\ total_seconds' = total_seconds + seconds
  /\ Keys(groups') = Keys(groups) \cup {key}
  /\ Value(groups', key) = ValueOr0(groups, key) + seconds
  /\ \A other \in Keys(groups) \ {key} : Value(groups', other) = Value(groups, other)

AddsNothing == groups' = groups /\ total_seconds' = total_seconds

(***************************************************************************)
(* C1: after any prefix of the events, every event that passed the         *)
(* filters has added its full duration to exactly one group key (the       *)
(* replacement of the first matching rule, or its own name), every         *)
(* filtered-out event has added nothing, and the group values sum to       *)
(* total_seconds.                                                          *)
(***************************************************************************)
C1_EachEventInOneGroup ==
  /\ [](SumOf(groups) = total_seconds)
  /\ [][EventStep =>
          IF at' = "line104"
          THEN AddsToOneGroup(ExpectedGroup(event'.name), Duration(event'))
          ELSE AddsNothing]_vars

\* a second event has been added to the group a rule put the first one in
C1_Witness ==
  /\ pc = "events"
  /\ at = "line104"
  /\ event_name # event.name
  /\ Duration(event) > 0
  /\ Value(groups, event_name) > Duration(event)
  /\ Len(groups) = 1

Reported(text) ==
  \E j \in DOMAIN output :
    /\ output[j].kind \in {"unable", "replacing"}
    /\ IsSubstring(text, output[j].text) \/ IsSubstring(text, output[j].with)

C5_AbortReportsRule ==
  pc = "error" =>
    /\ raised \in {"ParseException", "re.error"}
    /\ Len(results) = k - 2
    /\ at = None /\ groups = <<>> /\ total_seconds = 0
    /\ LinesOf("group") = <<>>
    /\ Reported(argv.regexes[k - 1])

(***************************************************************************)
(* C6, as amended: on a successful run the output starts with the single   *)
(* 'Processing events from X to Y' line, then has one diagnostic line per  *)
(* parsed rule, in rule order, then the group lines; no rule diagnostic    *)
(* line is printed before the 'Processing events' line or after a group    *)
(* line.                                                                   *)
(***************************************************************************)
C6_ProcessingThenRulesThenGroups ==
  pc = "done" =>
    /\ Len(output) = 1 + Len(args.regexes) + Len(groups)
    /\ output[1] = ProcessingLine(argv.startdate, argv.enddate)
    /\ \A j \in 1..Len(args.regexes) :
         /\ output[1 + j].kind = "replacing"
         /\ output[1 + j].text = results[j].pattern.pattern
         /\ output[1 + j].with = results[j].replacement
    /\ \A j \in (2 + Len(args.regexes))..Len(output) : output[j].kind = "group"

\* a finished run with two different rules and a group line
C6_Witness ==
  /\ pc = "done"
  /\ Len(results) = 2
  /\ results[1] # results[2]
  /\ Len(groups) >= 1

\* C6 as stated: first the rule lines, then the 'Processing events' line,
\* then the group lines
C6_RulesThenProcessingThenGroups ==
  pc = "done" =>
    /\ Len(output) = Len(args.regexes) + 1 + Len(groups)
    /\ \A j \in 1..Len(args.regexes) : output[j].kind = "replacing"
    /\ output[Len(args.regexes) + 1].kind = "processing"
    /\ \A j \in (2 + Len(args.regexes))..Len(output) : output[j].kind = "group"

(***************************************************************************)
(* C8: when the all-day flag is not set, no all-day event adds to a group  *)
(* or to the total; when it is set, an all-day event within the            *)
(* boundaries adds its full duration to its group, as a timed event does.  *)
(***************************************************************************)
WithinBoundaries(ev) ==
  /\ IsSet(args.startdate) => ev.begin >= args.startdate[1]
  /\ IsSet(args.enddate) => ev.end <= args.enddate[1]

C8_AllDayOnlyWithFlag ==
  [][EventStep /\ event'.all_day =>
       IF ~args.allday THEN AddsNothing
       ELSE IF WithinBoundaries(event')
            THEN AddsToOneGroup(ExpectedGroup(event'.name), Duration(event'))
            ELSE AddsNothing]_vars

\* with the flag set, an all-day event has been added to its group
C8_Witness ==
  /\ args.allday
  /\ event.all_day
  /\ at = "line104"
  /\ Duration(event) > 0
  /\ Value(groups, event_name) >= Duration(event)

(***************************************************************************)
(* C9: the group lines list every key of the group mapping exactly once,   *)
(* groups of zero duration included, in non-increasing order of duration.  *)
(***************************************************************************)
C9_GroupLinesSortedDescending ==
  pc = "done" =>
    LET lines == LinesOf("group")
    IN  /\ Len(lines) = Cardinality(Keys(groups))
        /\ \A key \in Keys(groups) :
             \E j \in DOMAIN lines :
               /\ lines[j].text = key
               /\ lines[j].with = TotalHours(Value(groups, key))
               /\ \A i \in DOMAIN lines : lines[i].text = key => i = j
        /\ \A j \in 1..(Len(lines) - 1) : lines[j].with.num >= lines[j + 1].with.num

\* the report of a zero-duration group first seen before a longer one
C9_Witness ==
  /\ pc = "done"
  /\ Len(groups) = 2
  /\ groups[1].seconds = 0
  /\ groups[2].seconds > 0
  /\ LinesOf("group")[1].text = groups[2].name
  /\ LinesOf("group")[2].text = groups[1].name

(***************************************************************************)
(* C10 as stated: the all-day flag handed to _process_calendar is true     *)
(* only when --allday is given a true value; omitted or given a false      *)
(* value such as 'False' or 'false', the flag is false.                    *)
(***************************************************************************)
C10_FlagIsTheBooleanGiven ==
  pc # "main" =>
    (args.allday <=> argv.allday.given /\ argv.allday.value = "True")

====
